---- MODULE Spec2Model ----
(***************************************************************************)
(* Model of detector_Rakshit_saxena.py: the PIIDetectorRedactor class      *)
(* (regular-expression rule tables, detect_pii, the redact_* masks) and    *)
(* the process_csv driver.                                                 *)
(*                                                                         *)
(* A Python str is a sequence of one-character strings.  A JSON value is a *)
(* record [t, s, n]: t is "str", "num" or "null".  A dict is a sequence of *)
(* <<key, value>> pairs with distinct keys, in insertion order.            *)
(***************************************************************************)
EXTENDS Integers, Sequences, FiniteSets, TLC

VARIABLES
    data, ret, pc,                                   \* one detect_pii call
    df, index, redacted_data_list, is_pii_list, output_df,   \* process_csv
    heap, self, frame, results, inputs               \* calls sharing a detector

vars == <<data, ret, pc, df, index, redacted_data_list, is_pii_list, output_df,
          heap, self, frame, results, inputs>>

callVars == <<data, ret, pc>>
csvVars == <<df, index, redacted_data_list, is_pii_list, output_df>>
concVars == <<heap, self, frame, results, inputs>>

-----------------------------------------------------------------------------
(* Bounds *)

MaxFields == 3

MaxRows == 2

MaxCalls == 2

-----------------------------------------------------------------------------
(* Characters and values *)

Digits == {"0", "1", "2", "3", "4", "5", "6", "7", "8", "9"}

Lower == {"a", "b", "c", "d", "e", "f", "g", "h", "i", "j", "k", "l", "m",
          "n", "o", "p", "q", "r", "s", "t", "u", "v", "w", "x", "y", "z"}

Upper == {"A", "B", "C", "D", "E", "F", "G", "H", "I", "J", "K", "L", "M",
          "N", "O", "P", "Q", "R", "S", "T", "U", "V", "W", "X", "Y", "Z"}

\* \d
IsDigit(c) == c \in Digits

WordChars == Digits \cup Lower \cup Upper \cup {"_"}

UpiChars == WordChars \cup {".", "-"}

\* \w
IsWord(c) == c \in WordChars

\* [\w\.-]
IsUpiChar(c) == c \in UpiChars

\* the characters str.split() with no argument splits on
IsSpace(c) == c = " "

Str(s) == [t |-> "str", s |-> s, n |-> 0]

Num(n) == [t |-> "num", s |-> <<>>, n |-> n]

Null == [t |-> "null", s |-> <<>>, n |-> 0]

\* isinstance(value, str)
IsStr(v) == v.t = "str"

Min(a, b) == IF a < b THEN a ELSE b

Max(a, b) == IF a > b THEN a ELSE b

\* s[:n]
Take(s, n) == SubSeq(s, 1, Min(n, Len(s)))

\* s[-n:]
LastN(s, n) == SubSeq(s, Max(1, Len(s) - n + 1), Len(s))

\* \b between s[i] and s[i+1], for i in 0..Len(s)
Boundary(s, i) ==
    LET before == i >= 1 /\ IsWord(s[i])
        after == i < Len(s) /\ IsWord(s[i + 1])
    IN before # after

\* sub in s
Contains(s, sub) ==
    \E i \in 0..(Len(s) - Len(sub)) : SubSeq(s, i + 1, i + Len(sub)) = sub

\* s.split(c)
RECURSIVE SplitOn(_, _)
SplitOn(s, c) ==
    IF \A i \in 1..Len(s) : s[i] # c
    THEN <<s>>
    ELSE LET i == CHOOSE i \in 1..Len(s) : s[i] = c /\ \A j \in 1..(i - 1) : s[j] # c
         IN <<SubSeq(s, 1, i - 1)>> \o SplitOn(SubSeq(s, i + 1, Len(s)), c)

\* s.split()
RECURSIVE SplitWs(_)
SplitWs(s) ==
    IF \A i \in 1..Len(s) : IsSpace(s[i])
    THEN <<>>
    ELSE LET b == CHOOSE i \in 1..Len(s) :
                      ~IsSpace(s[i]) /\ \A j \in 1..(i - 1) : IsSpace(s[j])
             e == CHOOSE i \in b..Len(s) :
                      /\ \A j \in b..i : ~IsSpace(s[j])
                      /\ (i = Len(s) \/ IsSpace(s[i + 1]))
         IN <<SubSeq(s, b, e)>> \o SplitWs(SubSeq(s, e + 1, Len(s)))

-----------------------------------------------------------------------------
(* The dict operations detect_pii uses *)

KeysOf(d) == {d[i][1] : i \in 1..Len(d)}

\* key in d
HasKey(d, k) == k \in KeysOf(d)

\* d[key]
DictGet(d, k) == d[CHOOSE i \in 1..Len(d) : d[i][1] = k][2]

\* d[key] = v
DictSet(d, k, v) ==
    IF HasKey(d, k)
    THEN [i \in 1..Len(d) |-> IF d[i][1] = k THEN <<k, v>> ELSE d[i]]
    ELSE Append(d, <<k, v>>)

-----------------------------------------------------------------------------
(* __init__: the rule tables *)

\* r'\b\d{n}\b' searched in s
DigitToken(s, n) ==
    \E i \in 0..(Len(s) - n) :
        /\ Boundary(s, i)
        /\ \A j \in 1..n : IsDigit(s[i + j])
        /\ Boundary(s, i + n)

phone_pattern_search(s) == DigitToken(s, 10)

aadhar_pattern_search(s) == DigitToken(s, 12)

passport_pattern_search(s) ==
    \E i \in 0..(Len(s) - 8) :
        /\ Boundary(s, i)
        /\ s[i + 1] \in Upper
        /\ \A j \in 2..8 : IsDigit(s[i + j])
        /\ Boundary(s, i + 8)

\* [\w\.-]+@[\w\.-]+\.\w+\b matching from s[i+1]
UpiEmailFrom(s, i) ==
    \E a \in (i + 2)..(Len(s) - 3) :
        /\ s[a] = "@"
        /\ \A j \in (i + 1)..(a - 1) : IsUpiChar(s[j])
        /\ \E d \in (a + 2)..(Len(s) - 1) :
               /\ s[d] = "."
               /\ \A j \in (a + 1)..(d - 1) : IsUpiChar(s[j])
               /\ \E e \in (d + 1)..Len(s) :
                      /\ \A j \in (d + 1)..e : IsWord(s[j])
                      /\ Boundary(s, e)

\* \d{10}@\w+\b matching from s[i+1]
UpiPhoneFrom(s, i) ==
    /\ i + 12 <= Len(s)
    /\ \A j \in 1..10 : IsDigit(s[i + j])
    /\ s[i + 11] = "@"
    /\ \E e \in (i + 12)..Len(s) :
           /\ \A j \in (i + 12)..e : IsWord(s[j])
           /\ Boundary(s, e)

\* r'\b[\w\.-]+@[\w\.-]+\.\w+\b|\b\d{10}@\w+\b' searched in s
upi_pattern_search(s) ==
    \E i \in 0..Len(s) :
        Boundary(s, i) /\ (UpiEmailFrom(s, i) \/ UpiPhoneFrom(s, i))

combinatorial_pii_fields == <<"name", "email", "address", "device_id", "ip_address">>

InList(x, l) == \E i \in 1..Len(l) : l[i] = x

-----------------------------------------------------------------------------
(* String literals of the source *)

XXX == <<"X", "X", "X">>

XXXX == <<"X", "X", "X", "X">>

XXXXXX == <<"X", "X", "X", "X", "X", "X">>

XXXXXXX == <<"X", "X", "X", "X", "X", "X", "X">>

XXX_AT == <<"X", "X", "X", "@">>

XXX_AT_XXX == <<"X", "X", "X", "@", "X", "X", "X">>

REDACTED_ADDRESS ==
    <<"[", "R", "E", "D", "A", "C", "T", "E", "D", "_",
      "A", "D", "D", "R", "E", "S", "S", "]">>

REDACTED_DEVICE_ID ==
    <<"[", "R", "E", "D", "A", "C", "T", "E", "D", "_",
      "D", "E", "V", "I", "C", "E", "_", "I", "D", "]">>

REDACTED_IP ==
    <<"[", "R", "E", "D", "A", "C", "T", "E", "D", "_", "I", "P", "]">>

-----------------------------------------------------------------------------
(* The masks.  Each returns [ok, v]: ok = FALSE is a raised exception.     *)

Ok(s) == [ok |-> TRUE, v |-> Str(s)]

Raise == [ok |-> FALSE, v |-> Null]

redact_phone(phone) == Ok(Take(phone.s, 2) \o XXXXXX \o LastN(phone.s, 2))

redact_aadhar(aadhar) == Ok(Take(aadhar.s, 4) \o XXXX \o LastN(aadhar.s, 4))

redact_passport(passport) == Ok(<<passport.s[1]>> \o XXXXXXX)

redact_upi(upi) ==
    IF Contains(upi.s, <<"@">>)
    THEN LET parts == SplitOn(upi.s, "@")
         IN Ok(Take(parts[1], 2) \o XXX_AT \o parts[2])
    ELSE Ok(XXX_AT_XXX)

\* A name whose last part is taken as parts[1] instead of parts[-1].
redact_name_second_part(name) ==
    IF ~IsStr(name) THEN Raise
    ELSE LET parts == SplitWs(name.s)
         IN IF Len(parts) >= 2
            THEN Ok(<<parts[1][1]>> \o XXX \o <<" ">> \o <<parts[2][1]>> \o XXX)
            ELSE IF Len(name.s) = 0 THEN Raise ELSE Ok(<<name.s[1]>> \o XXX)

redact_name(name) ==
    IF ~IsStr(name) THEN Raise
    ELSE LET parts == SplitWs(name.s)
         IN IF Len(parts) >= 2
            THEN Ok(<<parts[1][1]>> \o XXX \o <<" ">> \o <<parts[Len(parts)][1]>> \o XXX)
            ELSE IF Len(name.s) = 0 THEN Raise ELSE Ok(<<name.s[1]>> \o XXX)

redact_email(email) ==
    IF ~IsStr(email) THEN Raise
    ELSE LET parts == SplitOn(email.s, "@")
         IN IF Len(parts) < 2 THEN Raise
            ELSE Ok(Take(parts[1], 2) \o XXX_AT \o parts[2])

-----------------------------------------------------------------------------
(* detect_pii *)

\* lines 18-21
InitLocals(d) ==
    [redacted_data |-> d,
     standalone_pii_found |-> FALSE,
     combinatorial_pii_count |-> 0,
     combinatorial_fields_found |-> <<>>]

\* lines 26-37: the mask of the standalone rule that matches (key, value);
\* ok = FALSE when no rule matches
StandaloneRule(key, value) ==
    IF key = "phone" /\ phone_pattern_search(value.s) THEN redact_phone(value)
    ELSE IF key = "aadhar" /\ aadhar_pattern_search(value.s) THEN redact_aadhar(value)
    ELSE IF key = "passport" /\ passport_pattern_search(value.s) THEN redact_passport(value)
    ELSE IF key = "upi_id" /\ upi_pattern_search(value.s) THEN redact_upi(value)
    ELSE [ok |-> FALSE, v |-> value]

\* The combinatorial test made for every value, whatever its type.
CountsAsCombinatorialAnyType(key, value) == InList(key, combinatorial_pii_fields)

\* lines 24 and 40: the combinatorial test is inside the isinstance block
CountsAsCombinatorial(key, value) ==
    IsStr(value) /\ InList(key, combinatorial_pii_fields)

\* one iteration of the loop of line 23
ItemStep(loc, key, value) ==
    LET m == IF IsStr(value) THEN StandaloneRule(key, value)
             ELSE [ok |-> FALSE, v |-> value]
        l1 == IF m.ok
              THEN [loc EXCEPT !.standalone_pii_found = TRUE,
                               !.redacted_data = DictSet(@, key, m.v)]
              ELSE loc
    IN IF CountsAsCombinatorial(key, value)
       THEN [l1 EXCEPT !.combinatorial_pii_count = @ + 1,
                       !.combinatorial_fields_found = Append(@, key)]
       ELSE l1

RECURSIVE Loop(_, _, _)
Loop(loc, d, i) ==
    IF i > Len(d) THEN loc ELSE Loop(ItemStep(loc, d[i][1], d[i][2]), d, i + 1)

\* A threshold of one quasi-identifier.
combinatorial_pii_found_one(count) == count >= 1

\* line 44
combinatorial_pii_found(count) == count >= 2

\* lines 48-57: the mask of one field of combinatorial_fields_found
FieldMask(field, rd) ==
    IF field = "name" /\ HasKey(rd, "name") THEN redact_name(DictGet(rd, "name"))
    ELSE IF field = "email" /\ HasKey(rd, "email") THEN redact_email(DictGet(rd, "email"))
    ELSE IF field = "address" /\ HasKey(rd, "address") THEN Ok(REDACTED_ADDRESS)
    ELSE IF field = "device_id" /\ HasKey(rd, "device_id") THEN Ok(REDACTED_DEVICE_ID)
    ELSE IF field = "ip_address" /\ HasKey(rd, "ip_address") THEN Ok(REDACTED_IP)
    ELSE Ok(<<>>)

FieldMasked(field, rd) ==
    HasKey(rd, field) /\ InList(field, combinatorial_pii_fields)

\* lines 47-57: [raised, redacted_data]
RECURSIVE CombLoop(_, _, _)
CombLoop(rd, found, i) ==
    IF i > Len(found) THEN [raised |-> FALSE, redacted_data |-> rd]
    ELSE IF ~FieldMasked(found[i], rd) THEN CombLoop(rd, found, i + 1)
    ELSE LET m == FieldMask(found[i], rd)
         IN IF m.ok THEN CombLoop(DictSet(rd, found[i], m.v), found, i + 1)
            ELSE [raised |-> TRUE, redacted_data |-> rd]

Raised == [raised |-> TRUE, is_pii |-> FALSE, redacted_data |-> <<>>]

\* lines 17-60: [raised, is_pii, redacted_data]
detect_pii(d) ==
    LET loc == Loop(InitLocals(d), d, 1)
        found == combinatorial_pii_found(loc.combinatorial_pii_count)
        c == IF found
             THEN CombLoop(loc.redacted_data, loc.combinatorial_fields_found, 1)
             ELSE [raised |-> FALSE, redacted_data |-> loc.redacted_data]
    IN IF c.raised THEN Raised
       ELSE [raised |-> FALSE,
             is_pii |-> loc.standalone_pii_found \/ found,
             redacted_data |-> c.redacted_data]

-----------------------------------------------------------------------------
(* Input values *)

\* "9876543210"
S_phone10 == <<"9", "8", "7", "6", "5", "4", "3", "2", "1", "0">>

\* "98765"
S_phone5 == <<"9", "8", "7", "6", "5">>

\* "123456789012"
S_aadhar12 == <<"1", "2", "3", "4", "5", "6", "7", "8", "9", "0", "1", "2">>

\* "1234"
S_aadhar4 == <<"1", "2", "3", "4">>

\* "A1234567"
S_passport == <<"A", "1", "2", "3", "4", "5", "6", "7">>

\* "a1234567"
S_passport_lower == <<"a", "1", "2", "3", "4", "5", "6", "7">>

\* "johndoe@upi"
S_upi_handle == <<"j", "o", "h", "n", "d", "o", "e", "@", "u", "p", "i">>

\* "john@x.com"
S_upi_email == <<"j", "o", "h", "n", "@", "x", ".", "c", "o", "m">>

\* "9876543210@ybl"
S_upi_phone == <<"9", "8", "7", "6", "5", "4", "3", "2", "1", "0", "@", "y", "b", "l">>

\* "a@9876543210@ybl"
S_upi_two_at == <<"a", "@", "9", "8", "7", "6", "5", "4", "3", "2", "1", "0", "@", "y", "b", "l">>

\* "pay 9876543210@ybl"
S_upi_prefixed == <<"p", "a", "y", " ", "9", "8", "7", "6", "5", "4", "3", "2", "1", "0", "@", "y", "b", "l">>

\* "John"
S_name1 == <<"J", "o", "h", "n">>

\* "John Doe"
S_name2 == <<"J", "o", "h", "n", " ", "D", "o", "e">>

\* "Al B Cy"
S_name3 == <<"A", "l", " ", "B", " ", "C", "y">>

\* " Jo"
S_name_sp == <<" ", "J", "o">>

\* "  "
S_name_blank == <<" ", " ">>

S_email == S_upi_email

\* "nodomain"
S_email_no_at == <<"n", "o", "d", "o", "m", "a", "i", "n">>

\* "a@b@c"
S_email_two_at == <<"a", "@", "b", "@", "c">>

\* "@x.com"
S_email_no_local == <<"@", "x", ".", "c", "o", "m">>

\* "12 MG Road"
S_address == <<"1", "2", " ", "M", "G", " ", "R", "o", "a", "d">>

\* "dev1"
S_device == <<"d", "e", "v", "1">>

\* "10.0.0.1"
S_ip == <<"1", "0", ".", "0", ".", "0", ".", "1">>

\* "Pune"
S_city == <<"P", "u", "n", "e">>

AllKeys == {"phone", "aadhar", "passport", "upi_id",
            "name", "email", "address", "device_id", "ip_address", "city"}

ValuePool(key) ==
    CASE key = "phone" -> {Str(S_phone10), Str(S_phone5), Num(98765)}
      [] key = "aadhar" -> {Str(S_aadhar12), Str(S_aadhar4)}
      [] key = "passport" -> {Str(S_passport), Str(S_passport_lower)}
      [] key = "upi_id" -> {Str(S_upi_handle), Str(S_upi_email), Str(S_upi_phone),
                            Str(S_upi_two_at), Str(S_upi_prefixed)}
      [] key = "name" -> {Str(<<>>), Str(S_name1), Str(S_name2), Str(S_name3),
                          Str(S_name_sp), Str(S_name_blank), Num(7)}
      [] key = "email" -> {Str(S_email), Str(S_email_no_at), Str(S_email_two_at),
                           Str(S_email_no_local), Null}
      [] key = "address" -> {Str(S_address), Null}
      [] key = "device_id" -> {Str(S_device), Num(12345)}
      [] key = "ip_address" -> {Str(S_ip)}
      [] key = "city" -> {Str(S_city), Num(411001)}

-----------------------------------------------------------------------------
(* One call of detect_pii on an arbitrary record *)

NoRet == [raised |-> FALSE, is_pii |-> FALSE, redacted_data |-> <<>>]

IdleCall ==
    /\ data = <<>>
    /\ ret = NoRet

IdleCsv ==
    /\ df = <<>>
    /\ index = 0
    /\ redacted_data_list = <<>>
    /\ is_pii_list = <<>>
    /\ output_df = <<>>

IdleConc ==
    /\ heap = <<>>
    /\ self = <<>>
    /\ frame = <<>>
    /\ results = <<>>
    /\ inputs = <<>>

Init ==
    /\ data = <<>>
    /\ ret = NoRet
    /\ pc = "build"
    /\ IdleCsv
    /\ IdleConc

\* The caller builds the dict it will pass, one field at a time.
AddField ==
    /\ pc = "build"
    /\ Len(data) < MaxFields
    /\ \E k \in AllKeys \ KeysOf(data) : \E v \in ValuePool(k) :
           data' = Append(data, <<k, v>>)
    /\ UNCHANGED <<ret, pc, csvVars, concVars>>

Classify ==
    /\ pc = "build"
    /\ ret' = detect_pii(data)
    /\ pc' = "done"
    /\ UNCHANGED <<data, csvVars, concVars>>

Next == AddField \/ Classify

Spec == Init /\ [][Next]_vars

-----------------------------------------------------------------------------
(* process_csv.  A data_json cell is the text of a JSON object written with *)
(* double or with single quotes (kind "object"), text json.loads rejects    *)
(* (kind "invalid"), or an empty cell, which pandas reads as the float NaN  *)
(* (kind "nan").                                                            *)

DoubleQuoted(obj) == [kind |-> "object", quote |-> "double", obj |-> obj]

SingleQuoted(obj) == [kind |-> "object", quote |-> "single", obj |-> obj]

InvalidText == [kind |-> "invalid", quote |-> "none", obj |-> <<>>]

NaN == [kind |-> "nan", quote |-> "none", obj |-> <<>>]

HasApostrophe(obj) ==
    \E i \in 1..Len(obj) : IsStr(obj[i][2]) /\ Contains(obj[i][2].s, <<"'">>)

\* line 96: json.loads(row['data_json'].replace("'", '"')); ok = FALSE when it
\* raises (NaN has no replace; an apostrophe inside a value becomes a quote)
json_loads_replaced(cell) ==
    IF cell.kind = "object" /\ ~HasApostrophe(cell.obj)
    THEN [ok |-> TRUE, obj |-> cell.obj]
    ELSE [ok |-> FALSE, obj |-> <<>>]

\* line 98: json.dumps writes double quotes
json_dumps(obj) == DoubleQuoted(obj)

\* "O'Neil"
S_name_apos == <<"O", "'", "N", "e", "i", "l">>

CsvCells ==
    {DoubleQuoted(<<<<"name", Str(S_name2)>>, <<"email", Str(S_email)>>>>),
     SingleQuoted(<<<<"name", Str(S_name2)>>, <<"email", Str(S_email)>>>>),
     DoubleQuoted(<<<<"name", Str(<<>>)>>, <<"email", Str(S_email)>>>>),
     SingleQuoted(<<<<"email", Str(S_email_no_at)>>, <<"address", Str(S_address)>>>>),
     DoubleQuoted(<<<<"city", Str(S_city)>>>>),
     SingleQuoted(<<<<"phone", Str(S_phone10)>>, <<"name", Str(S_name1)>>>>),
     DoubleQuoted(<<<<"name", Str(S_name_apos)>>, <<"city", Str(S_city)>>>>),
     InvalidText,
     NaN}

\* lines 88-92: the frame read and the empty lists
InitCsv ==
    /\ df \in UNION {[1..n -> CsvCells] : n \in 0..MaxRows}
    /\ index = 0
    /\ redacted_data_list = <<>>
    /\ is_pii_list = <<>>
    /\ output_df = <<>>
    /\ pc = "rows"
    /\ IdleCall
    /\ IdleConc

\* lines 94-102: one iteration, with its try and its bare except
ProcessRow ==
    /\ pc = "rows"
    /\ index < Len(df)
    /\ LET cell == df[index + 1]
           parsed == json_loads_replaced(cell)
           r == IF parsed.ok THEN detect_pii(parsed.obj) ELSE Raised
       IN IF ~r.raised
          THEN /\ redacted_data_list' = Append(redacted_data_list, json_dumps(r.redacted_data))
               /\ is_pii_list' = Append(is_pii_list, r.is_pii)
          ELSE /\ redacted_data_list' = Append(redacted_data_list, cell)
               /\ is_pii_list' = Append(is_pii_list, FALSE)
    /\ index' = index + 1
    /\ UNCHANGED <<df, output_df, pc, data, ret, concVars>>

\* lines 104-110: the output frame
WriteOutput ==
    /\ pc = "rows"
    /\ index = Len(df)
    /\ output_df' = [i \in 1..Len(df) |->
                        [record_id |-> i,
                         redacted_data_json |-> redacted_data_list[i],
                         is_pii |-> is_pii_list[i]]]
    /\ pc' = "saved"
    /\ UNCHANGED <<df, index, redacted_data_list, is_pii_list, data, ret, concVars>>

NextCsv == ProcessRow \/ WriteOutput

SpecCsv == InitCsv /\ [][NextCsv]_vars

-----------------------------------------------------------------------------
(* Calls of detect_pii that share one PIIDetectorRedactor.  heap maps object *)
(* references to dicts: references 1..Len(inputs) are the records of the     *)
(* batch, the others the copies the calls make.  inputs keeps the batch as   *)
(* it was handed over.  Each worker runs detect_pii one loop iteration at a  *)
(* time.                                                                     *)

Workers == {"w1", "w2"}

\* lines 10-15: the attributes __init__ sets on self
DetectorTables ==
    [phone_pattern |-> "\\b\\d{10}\\b",
     aadhar_pattern |-> "\\b\\d{12}\\b",
     passport_pattern |-> "\\b[A-Z]{1}\\d{7}\\b",
     upi_pattern |-> "\\b[\\w\\.-]+@[\\w\\.-]+\\.\\w+\\b|\\b\\d{10}@\\w+\\b",
     combinatorial_pii_fields |-> combinatorial_pii_fields]

IdleFrame ==
    [pc |-> "idle", obj |-> 0, red |-> 0, i |-> 0,
     standalone_pii_found |-> FALSE,
     combinatorial_pii_count |-> 0,
     combinatorial_fields_found |-> <<>>]

ConcRecords ==
    {<<<<"phone", Str(S_phone10)>>, <<"name", Str(S_name1)>>>>,
     <<<<"name", Str(S_name2)>>, <<"email", Str(S_email)>>>>,
     <<<<"email", Str(S_email_no_at)>>, <<"device_id", Str(S_device)>>>>,
     <<<<"upi_id", Str(S_upi_phone)>>>>}

InitConc ==
    /\ inputs \in UNION {[1..n -> ConcRecords] : n \in 1..MaxRows}
    /\ heap = inputs
    /\ self = DetectorTables
    /\ frame = [w \in Workers |-> IdleFrame]
    /\ results = <<>>
    /\ pc = "batch"
    /\ IdleCall
    /\ IdleCsv

\* redacted_data bound to the caller's dict itself.
dict_alias(h, o) == [heap |-> h, ref |-> o]

\* line 18: data.copy() allocates a new dict with the same items
dict_copy(h, o) == [heap |-> Append(h, h[o]), ref |-> Len(h) + 1]

Started == Len(results) + Cardinality({w \in Workers : frame[w].pc # "idle"})

\* lines 17-21: a worker enters detect_pii with a record of the batch
Call(w) ==
    /\ frame[w].pc = "idle"
    /\ Started < MaxCalls
    /\ \E o \in 1..Len(inputs) :
           LET c == dict_copy(heap, o)
           IN /\ heap' = c.heap
              /\ frame' = [frame EXCEPT ![w] =
                              [IdleFrame EXCEPT !.pc = "loop", !.obj = o,
                                                !.red = c.ref, !.i = 1]]
    /\ UNCHANGED <<self, results, inputs, pc, callVars, csvVars>>

LocalsOf(f, h) ==
    [redacted_data |-> h[f.red],
     standalone_pii_found |-> f.standalone_pii_found,
     combinatorial_pii_count |-> f.combinatorial_pii_count,
     combinatorial_fields_found |-> f.combinatorial_fields_found]

\* lines 23-42: one iteration over data.items()
LoopStep(w) ==
    LET f == frame[w]
    IN /\ f.pc = "loop"
       /\ f.i <= Len(heap[f.obj])
       /\ LET item == heap[f.obj][f.i]
              l == ItemStep(LocalsOf(f, heap), item[1], item[2])
          IN /\ heap' = [heap EXCEPT ![f.red] = l.redacted_data]
             /\ frame' = [frame EXCEPT ![w] =
                   [f EXCEPT !.i = f.i + 1,
                             !.standalone_pii_found = l.standalone_pii_found,
                             !.combinatorial_pii_count = l.combinatorial_pii_count,
                             !.combinatorial_fields_found = l.combinatorial_fields_found]]
       /\ UNCHANGED <<self, results, inputs, pc, callVars, csvVars>>

\* line 44-46: the loop is over; the combinatorial pass starts, or is skipped
LoopEnd(w) ==
    LET f == frame[w]
    IN /\ f.pc = "loop"
       /\ f.i > Len(heap[f.obj])
       /\ frame' = [frame EXCEPT ![w] =
             [f EXCEPT !.i = 1,
                       !.pc = IF combinatorial_pii_found(f.combinatorial_pii_count)
                              THEN "comb" ELSE "return"]]
       /\ UNCHANGED <<heap, self, results, inputs, pc, callVars, csvVars>>

\* lines 47-57: one field of combinatorial_fields_found; a mask that raises
\* ends the call
CombStep(w) ==
    LET f == frame[w]
        found == f.combinatorial_fields_found
    IN /\ f.pc = "comb"
       /\ f.i <= Len(found)
       /\ LET m == IF FieldMasked(found[f.i], heap[f.red])
                   THEN FieldMask(found[f.i], heap[f.red])
                   ELSE Ok(<<>>)
          IN IF ~m.ok
             THEN /\ results' = Append(results, [obj |-> f.obj, ret |-> Raised])
                  /\ frame' = [frame EXCEPT ![w] = IdleFrame]
                  /\ heap' = heap
             ELSE /\ heap' = IF FieldMasked(found[f.i], heap[f.red])
                             THEN [heap EXCEPT ![f.red] = DictSet(@, found[f.i], m.v)]
                             ELSE heap
                  /\ frame' = [frame EXCEPT ![w] =
                        [f EXCEPT !.i = f.i + 1,
                                  !.pc = IF f.i = Len(found) THEN "return" ELSE "comb"]]
                  /\ results' = results
       /\ UNCHANGED <<self, inputs, pc, callVars, csvVars>>

\* lines 59-60
Return(w) ==
    LET f == frame[w]
    IN /\ f.pc = "return"
       /\ results' = Append(results,
             [obj |-> f.obj,
              ret |-> [raised |-> FALSE,
                       is_pii |-> f.standalone_pii_found
                                  \/ combinatorial_pii_found(f.combinatorial_pii_count),
                       redacted_data |-> heap[f.red]]])
       /\ frame' = [frame EXCEPT ![w] = IdleFrame]
       /\ UNCHANGED <<heap, self, inputs, pc, callVars, csvVars>>

NextConc ==
    \E w \in Workers : Call(w) \/ LoopStep(w) \/ LoopEnd(w) \/ CombStep(w) \/ Return(w)

SpecConc == InitConc /\ [][NextConc]_vars

-----------------------------------------------------------------------------
(* Vocabulary of the properties *)

StandaloneKeys == {"phone", "aadhar", "passport", "upi_id"}

QuasiKeys == {"name", "email", "address", "device_id", "ip_address"}

Letters == Lower \cup Upper

Done == pc = "done"

Returned == pc = "done" /\ ~ret.raised

\* the string value of a field matches the pattern of its standalone key
PatternMatches(key, s) ==
    \/ key = "phone" /\ phone_pattern_search(s)
    \/ key = "aadhar" /\ aadhar_pattern_search(s)
    \/ key = "passport" /\ passport_pattern_search(s)
    \/ key = "upi_id" /\ upi_pattern_search(s)

StandaloneMatch(d) ==
    \E i \in 1..Len(d) : IsStr(d[i][2]) /\ PatternMatches(d[i][1], d[i][2].s)

\* quasi-identifier keys present, whatever their values
QuasiKeyCount(d) == Cardinality({i \in 1..Len(d) : d[i][1] \in QuasiKeys})

\* quasi-identifier keys present with a string value
QuasiStrCount(d) ==
    Cardinality({i \in 1..Len(d) : d[i][1] \in QuasiKeys /\ IsStr(d[i][2])})

AllDigits(s) == \A i \in 1..Len(s) : s[i] \in Digits

AtCount(s) == Cardinality({i \in 1..Len(s) : s[i] = "@"})

AtPos(s) == CHOOSE i \in 1..Len(s) : s[i] = "@"

\* C1: detect_pii returns isPII = true exactly when a standalone field matches
\* its pattern or at least two quasi-identifier keys are present, by key alone.
C1_IsPiiByKeyPresence ==
    Done => /\ ~ret.raised
            /\ ret.is_pii = (StandaloneMatch(data) \/ QuasiKeyCount(data) >= 2)

\* C2: detect_pii is total: it returns for every well-formed record and never
\* raises, also on an empty name or an email without '@'.
C2_NeverRaises == Done => ~ret.raised

IsPhone10(v) == IsStr(v) /\ Len(v.s) = 10 /\ AllDigits(v.s)

\* C3: a record with a phone of exactly 10 digits, whatever its other fields,
\* is classified isPII = true with phone masked to first 2 digits + XXXXXX +
\* last 2 digits; a sole other quasi-identifier field is left untouched.
C3_PhoneMasked ==
    (Done /\ HasKey(data, "phone") /\ IsPhone10(DictGet(data, "phone"))) =>
        LET s == DictGet(data, "phone").s
        IN /\ ~ret.raised
           /\ ret.is_pii
           /\ HasKey(ret.redacted_data, "phone")
           /\ DictGet(ret.redacted_data, "phone") =
                  Str(SubSeq(s, 1, 2) \o XXXXXX \o SubSeq(s, 9, 10))
           /\ (Len(data) = 2 /\ QuasiKeyCount(data) = 1) =>
                  \A i \in 1..2 : data[i][1] \in QuasiKeys =>
                      ret.redacted_data[i] = data[i]

\* <alphabetic local part>@<handle word without a dot>
IsPaymentHandle(s) ==
    /\ AtCount(s) = 1
    /\ AtPos(s) > 1
    /\ AtPos(s) < Len(s)
    /\ \A i \in 1..Len(s) : i # AtPos(s) => s[i] \in Letters

\* C4: a record whose only field is upi_id with a value <letters>@<word> is
\* classified isPII = true and upi_id becomes first 2 characters of the local
\* part + XXX@ + the handle.
C4_PaymentHandleFlagged ==
    (Done /\ Len(data) = 1 /\ data[1][1] = "upi_id" /\ IsStr(data[1][2])
          /\ IsPaymentHandle(data[1][2].s)) =>
        LET s == data[1][2].s
            a == AtPos(s)
        IN /\ ~ret.raised
           /\ ret.is_pii
           /\ ret.redacted_data =
                  <<<<"upi_id", Str(Take(SubSeq(s, 1, a - 1), 2) \o XXX_AT
                                    \o SubSeq(s, a + 1, Len(s)))>>>>

\* the name and email shapes C5 is stated for
C5_Shapes(d) ==
    /\ QuasiStrCount(d) >= 2
    /\ \A i \in 1..Len(d) :
           /\ (d[i][1] = "name" /\ IsStr(d[i][2])) => Len(d[i][2].s) > 0
           /\ (d[i][1] = "email" /\ IsStr(d[i][2])) => AtCount(d[i][2].s) = 1

C5_NameMask(s) ==
    LET parts == SplitWs(s)
    IN IF Len(parts) >= 2
       THEN <<Head(parts[1])>> \o XXX \o <<" ">> \o <<Head(parts[Len(parts)])>> \o XXX
       ELSE <<Head(s)>> \o XXX

C5_EmailMask(s) ==
    Take(SubSeq(s, 1, AtPos(s) - 1), 2) \o XXX_AT \o SubSeq(s, AtPos(s) + 1, Len(s))

C5_Mask(key, s) ==
    CASE key = "name" -> C5_NameMask(s)
      [] key = "email" -> C5_EmailMask(s)
      [] key = "address" -> REDACTED_ADDRESS
      [] key = "device_id" -> REDACTED_DEVICE_ID
      [] key = "ip_address" -> REDACTED_IP

\* C5: with two or more quasi-identifier keys holding strings (name non-empty,
\* email with exactly one '@') detect_pii returns isPII = true, every such key
\* holds its mask, and the combinatorial rule rewrites no other field: a field
\* that is not one of them holds what the standalone pass left in it.
C5_QuasiMasked ==
    (Done /\ C5_Shapes(data)) =>
        /\ ~ret.raised
        /\ ret.is_pii
        /\ Len(ret.redacted_data) = Len(data)
        /\ \A i \in 1..Len(data) :
               LET k == data[i][1]
                   v == data[i][2]
               IN /\ ret.redacted_data[i][1] = k
                  /\ ret.redacted_data[i][2] =
                         IF k \in QuasiKeys /\ IsStr(v) THEN Str(C5_Mask(k, v.s))
                         ELSE IF IsStr(v) /\ PatternMatches(k, v.s)
                              THEN StandaloneRule(k, v).v
                              ELSE v

\* Reached: a three-part name, an email and a field outside the
\* quasi-identifier set were classified together.
C5_Witness ==
    /\ Done
    /\ C5_Shapes(data)
    /\ HasKey(data, "name")
    /\ IsStr(DictGet(data, "name"))
    /\ Len(SplitWs(DictGet(data, "name").s)) >= 3
    /\ HasKey(data, "email")
    /\ IsStr(DictGet(data, "email"))
    /\ KeysOf(data) \ QuasiKeys # {}

C6_Clean(d) == ~StandaloneMatch(d) /\ QuasiKeyCount(d) < 2

\* C6: with no standalone match and fewer than 2 quasi-identifier keys,
\* detect_pii returns isPII = false and a redactedRecord equal to the input.
C6_CleanUntouched ==
    (Done /\ C6_Clean(data)) =>
        /\ ~ret.raised
        /\ ~ret.is_pii
        /\ ret.redacted_data = data

\* Reached: a record with one quasi-identifier key and a standalone key whose
\* string value does not match its pattern was classified.
C6_Witness ==
    /\ Done
    /\ C6_Clean(data)
    /\ QuasiStrCount(data) = 1
    /\ \E i \in 1..Len(data) : data[i][1] \in StandaloneKeys /\ IsStr(data[i][2])

\* a field no rule rewrites
C7_Unwritten(d, i) ==
    \/ ~IsStr(d[i][2])
    \/ d[i][1] \notin StandaloneKeys \cup QuasiKeys
    \/ d[i][1] \in StandaloneKeys /\ ~PatternMatches(d[i][1], d[i][2].s)
    \/ d[i][1] \in QuasiKeys /\ QuasiStrCount(d) < 2

\* C7: when detect_pii returns, redactedRecord has the key set of the input and
\* every field no rule rewrites is identical to the input: non-string values,
\* keys outside both tables, standalone keys whose value does not match, and
\* quasi-identifier keys when fewer than two are counted.
C7_Frame ==
    Returned =>
        /\ KeysOf(ret.redacted_data) = KeysOf(data)
        /\ Len(ret.redacted_data) = Len(data)
        /\ \A i \in 1..Len(data) :
               C7_Unwritten(data, i) =>
                   DictGet(ret.redacted_data, data[i][1]) = data[i][2]

\* Reached: a call returned a record it rewrote, in which a quasi-identifier
\* key with a non-string value and a non-matching standalone key were kept.
C7_Witness ==
    /\ Returned
    /\ ret.redacted_data # data
    /\ \E i \in 1..Len(data) : data[i][1] \in QuasiKeys /\ ~IsStr(data[i][2])
    /\ \E i \in 1..Len(data) :
           /\ data[i][1] \in StandaloneKeys
           /\ IsStr(data[i][2])
           /\ ~PatternMatches(data[i][1], data[i][2].s)

\* C10: when a upi_id value holds a <10 digits>@<word> token, the 10-digit run
\* of the token does not appear in the redacted upi_id.
C10_DigitsNotLeaked ==
    (Returned /\ HasKey(data, "upi_id") /\ IsStr(DictGet(data, "upi_id"))) =>
        LET s == DictGet(data, "upi_id").s
            out == DictGet(ret.redacted_data, "upi_id")
        IN \A i \in 0..Len(s) :
               (Boundary(s, i) /\ UpiPhoneFrom(s, i)) =>
                   /\ IsStr(out)
                   /\ out # Str(s)
                   /\ ~Contains(out.s, SubSeq(s, i + 1, i + 10))

\* C9: a row whose payload parses to a record is emitted with the isPII value
\* and the serialized redactedRecord of its classification; the fallback
\* (is_pii = False, raw payload) is only for payloads that do not parse.
C9_FallbackOnlyUnparsable ==
    \A j \in 1..Len(is_pii_list) :
        LET parsed == json_loads_replaced(df[j])
            r == detect_pii(parsed.obj)
        IN parsed.ok =>
               /\ ~r.raised
               /\ is_pii_list[j] = r.is_pii
               /\ redacted_data_list[j] = json_dumps(r.redacted_data)
               /\ (QuasiStrCount(parsed.obj) >= 2 => is_pii_list[j])

\* C8: on one shared detector, under any interleaving of detect_pii calls over
\* a batch, every result equals the result of classifying that record alone,
\* the rule tables are never modified and no input record is mutated.
C8_NoSharedState ==
    /\ \A k \in 1..Len(results) : results[k].ret = detect_pii(inputs[results[k].obj])
    /\ \A o \in 1..Len(inputs) : heap[o] = inputs[o]
    /\ self = DetectorTables

\* Reached: two calls on the same record object have both returned a masked
\* copy while the record itself is as it was handed over.
C8_Witness ==
    /\ Len(results) >= 2
    /\ results[1].obj = results[2].obj
    /\ ~results[1].ret.raised
    /\ results[1].ret.redacted_data # inputs[results[1].obj]
    /\ results[2].ret = results[1].ret

====
